---- MODULE Spec2Model ----
(***************************************************************************)
(* Session engine and progress ledger of the PE exam simulator             *)
(* (src/PE_Exam_CBT.py): the question bank, the Standard / Targeted        *)
(* session sampler, the SETUP/ACTIVE/REVIEW/REPORT stage machine, grading  *)
(* on submission and the history-file loader.                              *)
(*                                                                         *)
(* Every Streamlit widget interaction is one atomic action: the script     *)
(* reruns top to bottom for one interaction at a time.                     *)
(***************************************************************************)
EXTENDS Integers, Sequences, FiniteSets, TLC

\* ------------------------------------------------------------------ bounds
\* Largest number of questions a loaded bank holds.
MaxBank == 3
\* Questions per session: the source draws min(20, len(target_pool)); the
\* model scales the cap of 20 down so that banks larger than the cap exist.
SessionSize == 2
\* cumulative_answered is not bounded by the source; SUBMIT is cut off here.
MaxCount == 3
\* Longest list of ids in an uploaded history file.
MaxList == 1
\* Largest bank of the behaviours that answer questions.
MaxGradedBank == 2
\* Most rows of a sheet of an uploaded workbook.
MaxRows == 2
\* Largest correct_value generate_distractors is called with (an integer, or
\* hundredths of a float).
MaxCorrect == 14

\* ------------------------------------------------------- question bank data
\* STUDY_PLAN_DATA, abridged to two topics and three ids.
STUDY_PLAN_DATA ==
    [t \in {"Fire Dynamics", "Risk & Reliability"} |->
        IF t = "Fire Dynamics" THEN <<"MF-69", "MF-124">> ELSE <<"MF-4">>]

\* Range of a sequence: Python's set(list).
SetOf(s) == {s[i] : i \in DOMAIN s}

Ids == UNION {SetOf(STUDY_PLAN_DATA[t]) : t \in DOMAIN STUDY_PLAN_DATA}

\* Question(text, options, correct_indices, q_id): the immutable part.  The
\* option indices are 0-based as in the source.
Question(q_id, options, correct_indices) ==
    [id |-> q_id, options |-> options, correct_indices |-> correct_indices]

\* The questions a bank is built from: one single-select question per id
\* and one multi-select question (correct_indices = {1, 2}).
Kinds ==
    { Question("MF-69", <<"12", "15">>, {0}),
      Question("MF-124", <<"12", "15", "18">>, {1, 2}),
      Question("MF-4", <<"12", "15">>, {1}) }

\* What parse_excel can return: any sequence of questions, ids repeated or
\* not (two rows may end with the same parenthetical token).
Banks(kinds, n) == UNION {[1..k -> kinds] : k \in 0..n}

\* a single-select and a multi-select question
GradedKinds == {q \in Kinds : q.id \in SetOf(STUDY_PLAN_DATA["Fire Dynamics"])}

VARIABLES
    questions_pool,      \* st.session_state.questions_pool: sequence of Question
    user_selections,     \* per bank question: Question.user_selections
    flagged,             \* per bank question: Question.flagged
    exam_session,        \* sequence of references (bank positions) to questions
    current_index,       \* 0-based cursor into exam_session
    exam_stage,          \* "SETUP" | "ACTIVE" | "REVIEW" | "REPORT"
    used_ids,            \* ledger: ids ever placed into a session
    wrong_ids,           \* ledger: ids ever missed
    cumulative_correct,  \* ledger counter
    cumulative_answered, \* ledger counter
    op,                  \* history: name of the handler that ran last
    history_loaded,      \* history: a history file has been uploaded
    message,             \* the toast / error the last history upload showed
    workbook,            \* the uploaded bank file: sheets of rows of cells
    correct_value,       \* generate_distractors: the argument correct_value
    variance,            \* generate_distractors: the argument variance, in percent
    distractors,         \* generate_distractors: the local set distractors
    result,              \* generate_distractors: the list it returned
    factor,              \* generate_distractors: the factor drawn last, in percent
    options,             \* generate_csv: the four options of the row
    correct_letter,      \* generate_csv: the recorded Correct Answer letter
    pc                   \* position of the question generator

vars == <<questions_pool, user_selections, flagged, exam_session, current_index,
          exam_stage, used_ids, wrong_ids, cumulative_correct,
          cumulative_answered, op, history_loaded, message, workbook,
          correct_value, variance, distractors, result, factor, options,
          correct_letter, pc>>

\* the state of the question generator (Heavy Difficulty Questions.py)
generator ==
    <<correct_value, variance, distractors, result, factor, options, correct_letter, pc>>
\* the state of the simulator (PE_Exam_CBT.py)
simulator ==
    <<questions_pool, user_selections, flagged, exam_session, current_index,
      exam_stage, used_ids, wrong_ids, cumulative_correct, cumulative_answered,
      op, history_loaded, message>>
\* what the handlers of the simulator never write
offline == <<workbook, generator>>

ledger == <<used_ids, wrong_ids, cumulative_correct, cumulative_answered>>
response == <<user_selections, flagged>>
session == <<exam_session, current_index, exam_stage>>

\* ---------------------------------------------------------------- helpers
Min(a, b) == IF a <= b THEN a ELSE b

\* (mutant) partial credit: a non-empty subset of the correct indices passes
is_correct_partial(i) ==
    /\ user_selections[i] # {}
    /\ user_selections[i] \subseteq questions_pool[i].correct_indices

\* Question.is_correct for the bank question at position i.
is_correct(i) == user_selections[i] = questions_pool[i].correct_indices

\* Question.is_answered
is_answered(i) == Cardinality(user_selections[i]) > 0

\* len(q.correct_indices) > 1
is_multi(i) == Cardinality(questions_pool[i].correct_indices) > 1

\* list.index(x): 0-based position of the first element equal to x.
IndexOf(s, x) == (CHOOSE i \in DOMAIN s : s[i] = x /\ \A j \in 1..(i - 1) : s[j] # x) - 1

\* (mutant) sampling with replacement
SampleWithReplacement(pool, k) == [1..k -> pool]

\* random.sample(pool, k): every ordered choice of k distinct members.
Sample(pool, k) ==
    {s \in [1..k -> pool] : \A i, j \in 1..k : i # j => s[i] # s[j]}

\* ids of the questions of a session
SessionIds(s) == {questions_pool[s[i]].id : i \in DOMAIN s}

\* ---------------------------------------------------------------- initial state
\* the session state of a new process (lines 134-152)
InitSession ==
    /\ questions_pool = <<>>
    /\ user_selections = <<>>
    /\ flagged = <<>>
    /\ exam_session = <<>>
    /\ current_index = 0
    /\ exam_stage = "SETUP"
    /\ used_ids = {}
    /\ wrong_ids = {}
    /\ cumulative_correct = 0
    /\ cumulative_answered = 0
    /\ op = "init"
    /\ history_loaded = FALSE
    /\ message = ""

\* the question generator is a separate script: not running
InitGenerator ==
    /\ correct_value = [int |-> FALSE, v |-> 0]
    /\ variance = 0
    /\ distractors = {}
    /\ result = <<>>
    /\ factor = 0
    /\ options = <<>>
    /\ correct_letter = ""
    /\ pc = "idle"

Init ==
    /\ InitSession
    /\ workbook = <<>>
    /\ InitGenerator

\* ---------------------------------------------------------------- bank upload
\* Sidebar A: the bank is parsed only while questions_pool is empty.
LoadBank(bank) ==
    /\ questions_pool = <<>>
    /\ questions_pool' = bank
    /\ user_selections' = [i \in DOMAIN bank |-> {}]
    /\ flagged' = [i \in DOMAIN bank |-> FALSE]
    /\ op' = "LoadBank"
    /\ UNCHANGED offline
    /\ UNCHANGED <<session, ledger, history_loaded, message>>

\* ---------------------------------------------------------------- parse_excel
\* The uploaded workbook: a sequence of sheets, a sheet the sequence of its
\* rows below the header, a row its prompt cell (row[0]) and its option
\* cells (row[1:]).
Empty == "<None>"

\* if c.value: the cell holds something
Truthy(value) == value # Empty

\* an option cell: its value and the bold attribute of its font
Cell(value, bold) == [value |-> value, bold |-> bold]

OptionCells ==
    {Cell(Empty, FALSE), Cell("12", FALSE), Cell("12", TRUE), Cell("15", TRUE)}

\* A prompt cell is empty, or a text that ends with the parenthetical
\* `paren` (NoParen: none) followed by `trailer`.
NoParen == "<no parenthetical>"
Prompt(empty, paren, trailer) == [empty |-> empty, paren |-> paren, trailer |-> trailer]

\* [\w-]+ : the parentheticals made of word characters and hyphens only
WordTokens == {"MF-69", "MF-4"}

Prompts ==
    { Prompt(TRUE, NoParen, ""),        \* no prompt
      Prompt(FALSE, NoParen, ""),       \* "Q"
      Prompt(FALSE, "MF-69", ""),       \* "Q (MF-69)"
      Prompt(FALSE, "MF-4", " "),       \* "Q (MF-4) "
      Prompt(FALSE, "MF 69", ""),       \* "Q (MF 69)"
      Prompt(FALSE, "MF-69", ".") }     \* "Q (MF-69)."

Row(prompt, cells) == [prompt |-> prompt, cells |-> cells]

Rows == {Row(p, <<c1, c2>>) : p \in Prompts, c1 \in OptionCells, c2 \in OptionCells}

\* one sheet of up to n rows, or two sheets of one row each
Workbooks(n) ==
    {<<sheet>> : sheet \in UNION {[1..k -> Rows] : k \in 0..n}}
    \cup {<<(<<r1>>), (<<r2>>)>> : r1 \in Rows, r2 \in Rows}

\* re.search(r'\(([\w-]+)\)\s*$', txt): a parenthetical of word characters
\* and hyphens, then nothing but white space
qid_match(prompt) == prompt.paren \in WordTokens /\ prompt.trailer \in {"", " "}

\* random.randint(100, 999), abridged to its two ends
RandSuffixes == {100, 999}

\* the ids a row can get: the parenthetical, or GEN_{row_idx}_{random}
RowIds(prompt, row_idx) ==
    IF qid_match(prompt) THEN {prompt.paren}
    ELSE {"GEN_" \o ToString(row_idx) \o "_" \o ToString(r) : r \in RandSuffixes}

\* the values of a sequence of cells
CellValues(cells) == [i \in DOMAIN cells |-> cells[i].value]

\* opts: the values of the cells that hold something, in order
RowOptions(cells) == CellValues(SelectSeq(cells, LAMBDA c : Truthy(c.value)))

\* cor: for i, c in enumerate(row[1:]),
\* the index i of every bold cell that holds something
RowCorrect(cells) ==
    {i \in 0..(Len(cells) - 1) : Truthy(cells[i + 1].value) /\ cells[i + 1].bold}

\* The questions one row adds to qs: none, or one for each id it can get.
ParseRow(row, row_idx) ==
    IF row.prompt.empty THEN {<<>>}
    ELSE IF RowOptions(row.cells) # <<>> /\ RowCorrect(row.cells) # {}
         THEN {<<Question(qid, RowOptions(row.cells), RowCorrect(row.cells))>> :
                  qid \in RowIds(row.prompt, row_idx)}
         ELSE {<<>>}

\* the lists the rows k.. of a sheet can add (row_idx starts at 2)
RECURSIVE ParseRows(_, _)
ParseRows(sheet, k) ==
    IF k > Len(sheet) THEN {<<>>}
    ELSE {q \o rest : q \in ParseRow(sheet[k], k + 1), rest \in ParseRows(sheet, k + 1)}

\* the lists parse_excel can return for the sheets n.. of a workbook
RECURSIVE ParseSheets(_, _)
ParseSheets(wb, n) ==
    IF n > Len(wb) THEN {<<>>}
    ELSE {qs \o rest : qs \in ParseRows(wb[n], 1), rest \in ParseSheets(wb, n + 1)}

parse_excel(wb) == ParseSheets(wb, 1)

\* ---------------------------------------------------------------- sampler
\* (mutant) the used_ids filter forgotten
StandardPoolUnfiltered == DOMAIN questions_pool

\* Standard mode: bank questions whose id is not in used_ids.
StandardPool == {i \in DOMAIN questions_pool : questions_pool[i].id \notin used_ids}

\* (mutant) the Standard filter applied to drills as well
TargetedPoolUnseen(focus_area) ==
    {i \in DOMAIN questions_pool :
        /\ questions_pool[i].id \in SetOf(STUDY_PLAN_DATA[focus_area])
        /\ questions_pool[i].id \notin used_ids}

\* Targeted mode: bank questions whose id is in the topic's list.
TargetedPool(focus_area) ==
    {i \in DOMAIN questions_pool :
        questions_pool[i].id \in SetOf(STUDY_PLAN_DATA[focus_area])}

\* (mutant) ids marked at submission, not at the start
MarkUsedLater(s) == used_ids

\* used_ids after the start loop has added the id of every session question
MarkUsed(s) == used_ids \cup SessionIds(s)

\* (mutant) the answers of earlier sessions kept
KeepSelections(s) == user_selections

\* q.user_selections = set() for every question q of the session
ResetSelections(s) ==
    [i \in DOMAIN questions_pool |-> IF i \in SetOf(s) THEN {} ELSE user_selections[i]]

\* q.flagged = False for every question q of the session
ResetFlags(s) ==
    [i \in DOMAIN questions_pool |-> IF i \in SetOf(s) THEN FALSE ELSE flagged[i]]

\* The start button: sample, mark used, reset the response state, go ACTIVE.
StartSession(target_pool, name) ==
    /\ questions_pool # <<>>
    /\ exam_stage = "SETUP"
    /\ Cardinality(target_pool) > 0
    /\ \E s \in Sample(target_pool, Min(SessionSize, Cardinality(target_pool))) :
        /\ exam_session' = s
        /\ used_ids' = MarkUsed(s)
        /\ user_selections' = ResetSelections(s)
        /\ flagged' = ResetFlags(s)
    /\ current_index' = 0
    /\ exam_stage' = "ACTIVE"
    /\ op' = name
    /\ UNCHANGED offline
    /\ UNCHANGED <<questions_pool, wrong_ids, cumulative_correct,
                   cumulative_answered, history_loaded, message>>

StartStandard == StartSession(StandardPool, "StartStandard")

StartTargeted(focus_area) == StartSession(TargetedPool(focus_area), "StartTargeted")

\* (mutant) the reset forgets wrong_ids
ResetHistoryKeepWrong ==
    /\ questions_pool # <<>>
    /\ exam_stage = "SETUP"
    /\ Cardinality(StandardPool) = 0
    /\ used_ids' = {}
    /\ cumulative_correct' = 0
    /\ cumulative_answered' = 0
    /\ op' = "ResetHistory"
    /\ UNCHANGED offline
    /\ UNCHANGED <<questions_pool, response, session, wrong_ids, history_loaded, message>>

\* "Reset History & Scores": offered in Standard mode when the pool is empty.
ResetHistory ==
    /\ questions_pool # <<>>
    /\ exam_stage = "SETUP"
    /\ Cardinality(StandardPool) = 0
    /\ used_ids' = {}
    /\ wrong_ids' = {}
    /\ cumulative_correct' = 0
    /\ cumulative_answered' = 0
    /\ op' = "ResetHistory"
    /\ UNCHANGED offline
    /\ UNCHANGED <<questions_pool, response, session, history_loaded, message>>

\* ---------------------------------------------------------------- ACTIVE stage
\* the question on screen
Current == exam_session[current_index + 1]

ToggleFlag ==
    /\ exam_stage = "ACTIVE"
    /\ flagged' = [flagged EXCEPT ![Current] = ~flagged[Current]]
    /\ op' = "ToggleFlag"
    /\ UNCHANGED offline
    /\ UNCHANGED <<questions_pool, user_selections, session, ledger, history_loaded, message>>

\* Multi-select: the checkbox of option i is toggled.
ToggleCheckbox(i) ==
    /\ exam_stage = "ACTIVE"
    /\ is_multi(Current)
    /\ i \in 0..(Len(questions_pool[Current].options) - 1)
    /\ user_selections' =
          [user_selections EXCEPT ![Current] =
              IF i \in @ THEN @ \ {i} ELSE @ \cup {i}]
    /\ op' = "ToggleCheckbox"
    /\ UNCHANGED offline
    /\ UNCHANGED <<questions_pool, flagged, session, ledger, history_loaded, message>>

\* Single-select: a radio option is chosen; the set is replaced wholesale.
SelectRadio(selected_option) ==
    /\ exam_stage = "ACTIVE"
    /\ ~is_multi(Current)
    /\ selected_option \in SetOf(questions_pool[Current].options)
    /\ user_selections' =
          [user_selections EXCEPT ![Current] =
              {IndexOf(questions_pool[Current].options, selected_option)}]
    /\ op' = "SelectRadio"
    /\ UNCHANGED offline
    /\ UNCHANGED <<questions_pool, flagged, session, ledger, history_loaded, message>>

Previous ==
    /\ exam_stage = "ACTIVE"
    /\ current_index > 0
    /\ current_index' = current_index - 1
    /\ op' = "Previous"
    /\ UNCHANGED offline
    /\ UNCHANGED <<questions_pool, response, exam_session, exam_stage, ledger,
                   history_loaded, message>>

\* (mutant) the guard off by one
HasNextOffByOne == current_index < Len(exam_session)

\* if q_idx < total_q - 1: the Next button is shown
HasNext == current_index < Len(exam_session) - 1

NextQuestion ==
    /\ exam_stage = "ACTIVE"
    /\ HasNext
    /\ current_index' = current_index + 1
    /\ op' = "NextQuestion"
    /\ UNCHANGED offline
    /\ UNCHANGED <<questions_pool, response, exam_session, exam_stage, ledger,
                   history_loaded, message>>

\* (mutant) the review step skipped: straight to the report
GoToReport ==
    /\ exam_stage = "ACTIVE"
    /\ exam_stage' = "REPORT"
    /\ op' = "GoToReview"
    /\ UNCHANGED offline
    /\ UNCHANGED <<questions_pool, response, exam_session, current_index, ledger,
                   history_loaded, message>>

\* "Review All Questions", and "Go to Review" on the last question.
GoToReview ==
    /\ exam_stage = "ACTIVE"
    /\ exam_stage' = "REVIEW"
    /\ op' = "GoToReview"
    /\ UNCHANGED offline
    /\ UNCHANGED <<questions_pool, response, exam_session, current_index, ledger,
                   history_loaded, message>>

\* ---------------------------------------------------------------- REVIEW stage
JumpTo(i) ==
    /\ exam_stage = "REVIEW"
    /\ i \in 0..(Len(exam_session) - 1)
    /\ current_index' = i
    /\ exam_stage' = "ACTIVE"
    /\ op' = "JumpTo"
    /\ UNCHANGED offline
    /\ UNCHANGED <<questions_pool, response, exam_session, ledger, history_loaded, message>>

\* (mutant) the session's count replaces the total
Overwrite(total, count) == count

\* "ADD to the total, don't overwrite it": total += count
Accumulate(total, count) == total + count

\* (mutant) a correct answer takes the id out of wrong_ids again
AddMissedDropCorrect(s) ==
    (wrong_ids \ {questions_pool[s[k]].id : k \in {j \in DOMAIN s : is_correct(s[j])}})
    \cup {questions_pool[s[k]].id : k \in {j \in DOMAIN s : ~is_correct(s[j])}}

\* wrong_ids after `if not q.is_correct(): wrong_ids.add(q.id)` for every
\* question q of session s
AddMissed(s) ==
    wrong_ids \cup {questions_pool[s[k]].id : k \in {j \in DOMAIN s : ~is_correct(s[j])}}

\* (mutant) the stage left at REVIEW, so that SUBMIT can be pressed again
SubmitStay ==
    /\ exam_stage = "REVIEW"
    /\ cumulative_answered + Len(exam_session) <= MaxCount
    /\ wrong_ids' = wrong_ids \cup
          {questions_pool[exam_session[k]].id :
              k \in {j \in DOMAIN exam_session : ~is_correct(exam_session[j])}}
    /\ cumulative_correct' = cumulative_correct +
          Cardinality({k \in DOMAIN exam_session : is_correct(exam_session[k])})
    /\ cumulative_answered' = cumulative_answered + Len(exam_session)
    /\ exam_stage' = "REVIEW"
    /\ op' = "Submit"
    /\ UNCHANGED offline
    /\ UNCHANGED <<questions_pool, response, exam_session, current_index, used_ids,
                   history_loaded, message>>

\* SUBMIT EXAM: grade every session question, fold into the ledger.
Submit ==
    /\ exam_stage = "REVIEW"
    /\ cumulative_answered + Len(exam_session) <= MaxCount
    /\ LET s_correct == Cardinality({k \in DOMAIN exam_session : is_correct(exam_session[k])})
           s_total == Len(exam_session)
       IN /\ wrong_ids' = AddMissed(exam_session)
          /\ cumulative_correct' = Accumulate(cumulative_correct, s_correct)
          /\ cumulative_answered' = Accumulate(cumulative_answered, s_total)
    /\ exam_stage' = "REPORT"
    /\ op' = "Submit"
    /\ UNCHANGED offline
    /\ UNCHANGED <<questions_pool, response, exam_session, current_index, used_ids,
                   history_loaded, message>>

\* ---------------------------------------------------------------- leaving a session
\* (mutant) leaving counts the session as answered
EndExamCounted ==
    /\ exam_stage # "SETUP"
    /\ exam_stage' = "SETUP"
    /\ cumulative_answered' = cumulative_answered + Len(exam_session)
    /\ op' = "EndExam"
    /\ UNCHANGED offline
    /\ UNCHANGED <<questions_pool, response, exam_session, current_index, used_ids,
                   wrong_ids, cumulative_correct, history_loaded, message>>

\* Sidebar "End Exam / Return to Menu": any stage but SETUP.
EndExam ==
    /\ exam_stage # "SETUP"
    /\ exam_stage' = "SETUP"
    /\ op' = "EndExam"
    /\ UNCHANGED offline
    /\ UNCHANGED <<questions_pool, response, exam_session, current_index, ledger,
                   history_loaded, message>>

\* REPORT: "Start Next Exam Block".
StartNextBlock ==
    /\ exam_stage = "REPORT"
    /\ exam_stage' = "SETUP"
    /\ op' = "StartNextBlock"
    /\ UNCHANGED offline
    /\ UNCHANGED <<questions_pool, response, exam_session, current_index, ledger,
                   history_loaded, message>>

\* ---------------------------------------------------------------- history upload
\* The JSON document of an uploaded history file.  A value of the document
\* is absent (the key is missing), a number where a list is expected, or a
\* list; a list item is an id or Unhashable (itself a list or an object).
Unhashable == "<unhashable>"
JsonItems == Ids \cup {Unhashable}

JAbsent == [type |-> "absent", items |-> <<>>, n |-> 0]
JNumber(n) == [type |-> "number", items |-> <<>>, n |-> n]
JList(l) == [type |-> "list", items |-> l, n |-> 0]

JsonLists(len) == {JList(l) : l \in UNION {[1..k -> JsonItems] : k \in 0..len}}
JsonCounts == {JNumber(1), JNumber(MaxCount)}

HistoryFile(kind, used, wrong, correct, answered) ==
    [kind |-> kind, used_ids |-> used, wrong_ids |-> wrong,
     correct |-> correct, answered |-> answered]

\* a bare list: the legacy form (its items are kept in the used_ids field)
LegacyFiles == {HistoryFile("list", l, JAbsent, JAbsent, JAbsent) : l \in JsonLists(MaxList)}

\* a keyed object; its lists hold at most one item
DictFiles ==
    {HistoryFile("dict", u, w, c, a) :
        u \in {JAbsent, JNumber(1)} \cup JsonLists(1),
        w \in {JAbsent, JNumber(1)} \cup JsonLists(1),
        c \in {JAbsent} \cup JsonCounts,
        a \in {JAbsent} \cup JsonCounts}

\* not JSON at all, and JSON that is neither a list nor an object
OtherFiles ==
    {HistoryFile(k, JAbsent, JAbsent, JAbsent, JAbsent) : k \in {"invalid", "scalar"}}

HistoryFiles == LegacyFiles \cup DictFiles \cup OtherFiles

\* set(x) raises TypeError: x is no list, or holds an unhashable item
SetRaises(x) == x.type = "number" \/ Unhashable \in SetOf(x.items)

\* set(data.get(key, []))
GetSet(x) == SetOf(x.items)

\* data.get(key, 0)
GetCount(x) == x.n

Ledger(used, wrong, correct, answered, msg) ==
    [used_ids |-> used, wrong_ids |-> wrong, cumulative_correct |-> correct,
     cumulative_answered |-> answered, message |-> msg]

\* (mutant) the listed ids replace used_ids
ReplaceIds(ids, loaded) == loaded

\* set.update: ids |= loaded
UpdateIds(ids, loaded) == ids \cup loaded

\* load_history_callback on ledger L: the ledger it leaves, statement by
\* statement, and the toast / error it shows.
LoadHistory(L, data) ==
    LET error == [L EXCEPT !.message = "Error loading history"]
    IN  IF data.kind = "invalid" THEN error
        ELSE IF data.kind = "list" THEN
            IF SetRaises(data.used_ids) THEN error
            ELSE [L EXCEPT !.used_ids = UpdateIds(@, GetSet(data.used_ids)),
                           !.message = "Loaded legacy history (Progress only)."]
        ELSE IF data.kind = "dict" THEN
            IF SetRaises(data.used_ids) THEN error
            ELSE LET L1 == [L EXCEPT !.used_ids = UpdateIds(@, GetSet(data.used_ids))]
                 IN  IF SetRaises(data.wrong_ids)
                     THEN [L1 EXCEPT !.message = "Error loading history"]
                     ELSE [L1 EXCEPT !.wrong_ids = UpdateIds(@, GetSet(data.wrong_ids)),
                                     !.cumulative_correct = GetCount(data.correct),
                                     !.cumulative_answered = GetCount(data.answered),
                                     !.message = "History Restored."]
        ELSE [L EXCEPT !.message = ""]

\* the ledger in memory
CurrentLedger ==
    Ledger(used_ids, wrong_ids, cumulative_correct, cumulative_answered, message)

\* The on_change callback of the history uploader: runs in every stage.  A
\* behaviour uploads one history file.
load_history_callback(data) ==
    /\ ~history_loaded
    /\ history_loaded' = TRUE
    /\ LET L == LoadHistory(CurrentLedger, data)
       IN /\ used_ids' = L.used_ids
          /\ wrong_ids' = L.wrong_ids
          /\ cumulative_correct' = L.cumulative_correct
          /\ cumulative_answered' = L.cumulative_answered
          /\ message' = L.message
    /\ op' = "load_history_callback"
    /\ UNCHANGED offline
    /\ UNCHANGED <<questions_pool, response, session>>

\* ---------------------------------------------------------------- Save Progress
\* list(a_set): the members in some order
ListOf(S) == Sample(S, Cardinality(S))

\* (mutant) the legacy format written: the bare list of used ids
SaveProgressLegacy(L) ==
    IF L.used_ids = {} THEN {}
    ELSE {HistoryFile("list", JList(u), JAbsent, JAbsent, JAbsent) : u \in ListOf(L.used_ids)}

\* Sidebar F: the progress files the download button can hand out for
\* ledger L; the button is offered when used_ids is not empty.
SaveProgress(L) ==
    IF L.used_ids = {} THEN {}
    ELSE {HistoryFile("dict", JList(u), JList(w),
                      JNumber(L.cumulative_correct), JNumber(L.cumulative_answered)) :
             u \in ListOf(L.used_ids), w \in ListOf(L.wrong_ids)}

\* the ledger of a new process
FreshLedger == Ledger({}, {}, 0, 0, "")

\* ---------------------------------------------------------------- question generator
\* Heavy Difficulty Questions.py.  A number is an int (v is its value) or a
\* float of two decimals (v is its value in hundredths); a factor and the
\* variance are in percent, so correct_value * factor is v * f / 100.
Number(int, v) == [int |-> int, v |-> v]

\* variance=0.15
DefaultVariance == 15

Variances == {0, DefaultVariance}

\* the arguments generate_distractors is called with
CorrectValues == {Number(int, v) : int \in BOOLEAN, v \in (-1)..MaxCorrect}

\* random.uniform(1.0 - variance, 1.0 + variance), in steps of one percent
Factors(v) == (100 - v)..(100 + v)

\* int(n / 100): truncation toward zero
Trunc(n) == IF n >= 0 THEN n \div 100 ELSE -((-n) \div 100)

\* int(correct_value * factor) for the exact product n / 100.  The product
\* is a binary float: where the exact product is an integer the float may
\* fall short of it, and int() then yields the integer before it.
IntValues(n) ==
    {Trunc(n)} \cup
    (IF n % 100 = 0 /\ n > 0 THEN {Trunc(n) - 1}
     ELSE IF n % 100 = 0 /\ n < 0 THEN {Trunc(n) + 1} ELSE {})

\* round(correct_value * factor, 2) in hundredths, for the exact product
\* n / 100 hundredths: the nearest; at an exact tie the binary float decides.
RoundValues(n) ==
    IF n % 100 = 50 THEN {n \div 100, n \div 100 + 1} ELSE {(n + 50) \div 100}

\* the values val can take for a factor of f percent (lines 36-41)
Values(correct, f) ==
    IF correct.int THEN IntValues(correct.v * f) ELSE RoundValues(correct.v * f)

\* (mutant) the comparison with the correct value forgotten
IsPositive(val, correct) == val > 0

\* val != correct_value and val > 0
IsDistractor(val, correct) == val # correct.v /\ val > 0

\* The loop test passes and a factor is drawn (lines 31-33).
Draw(f) ==
    /\ pc = "generate_distractors"
    /\ Cardinality(distractors) < 3
    /\ f \in Factors(variance)
    /\ factor' = f
    /\ pc' = "drawn"
    /\ UNCHANGED <<correct_value, variance, distractors, result, options, correct_letter>>
    /\ UNCHANGED <<simulator, workbook>>

\* The rest of the iteration (lines 34-44): a factor of 1.0 is skipped;
\* otherwise val is computed and added when it is a distractor.
Add ==
    /\ pc = "drawn"
    /\ IF factor = 100
       THEN distractors' = distractors
       ELSE \E val \in Values(correct_value, factor) :
               distractors' = IF IsDistractor(val, correct_value)
                              THEN distractors \cup {val} ELSE distractors
    /\ pc' = "generate_distractors"
    /\ UNCHANGED <<correct_value, variance, result, factor, options, correct_letter>>
    /\ UNCHANGED <<simulator, workbook>>

\* the loop is left: return list(distractors)
Return ==
    /\ pc = "generate_distractors"
    /\ ~(Cardinality(distractors) < 3)
    /\ result' \in ListOf(distractors)
    /\ pc' = "returned"
    /\ UNCHANGED <<correct_value, variance, distractors, factor, options, correct_letter>>
    /\ UNCHANGED <<simulator, workbook>>

\* opt_map = {0: "A", 1: "B", 2: "C", 3: "D"}
opt_map == [i \in 0..3 |-> <<"A", "B", "C", "D">>[i + 1]]

\* random.shuffle(l): l in any order
Shuffles(l) == {[i \in DOMAIN l |-> l[p[i]]] : p \in Permutations(DOMAIN l)}

\* (mutant) the letter taken before the shuffle, where correct is last
CorrectLetterBeforeShuffle(opts, correct) == opt_map[3]

\* opt_map[options.index(correct)]
CorrectLetter(opts, correct) == opt_map[IndexOf(opts, correct)]

\* generate_csv, one question: the call of line 150 passes the answer of
\* an archetype (a rounded float) and the default variance; the options
\* are shuffled, the letter is looked up and the row is written.
WriteRow ==
    /\ pc = "returned"
    /\ ~correct_value.int
    /\ variance = DefaultVariance
    /\ \E shuffled \in Shuffles(result \o <<correct_value.v>>) :
          /\ options' = shuffled
          /\ correct_letter' = CorrectLetter(shuffled, correct_value.v)
    /\ pc' = "written"
    /\ UNCHANGED <<correct_value, variance, distractors, result, factor>>
    /\ UNCHANGED <<simulator, workbook>>

\* a call of generate_distractors is entered, the simulator not running
InitDistractors ==
    /\ InitSession
    /\ workbook = <<>>
    /\ correct_value \in CorrectValues
    /\ variance \in Variances
    /\ distractors = {}
    /\ result = <<>>
    /\ factor = 0
    /\ options = <<>>
    /\ correct_letter = ""
    /\ pc = "generate_distractors"

\* a factor that can add a distractor is drawn
GoodDraw ==
    \E f \in Factors(variance) :
       /\ Draw(f)
       /\ f # 100
       /\ \E val \in Values(correct_value, f) :
             IsDistractor(val, correct_value) /\ val \notin distractors

\* an iteration that adds a distractor
Progress == Add /\ distractors' # distractors

NextGenerator ==
    \/ \E f \in Factors(variance) : Draw(f)
    \/ Add
    \/ Return
    \/ WriteRow

\* The generator runs on: no step is postponed for ever, and random.uniform
\* does not for ever miss the factors, nor the float the values, that add a
\* distractor while there are any.
SpecGenerator ==
    /\ InitDistractors
    /\ [][NextGenerator]_vars
    /\ WF_vars(NextGenerator)
    /\ SF_vars(GoodDraw)
    /\ SF_vars(Progress)

\* ---------------------------------------------------------------- bank file
\* Sidebar A with the file's content: questions_pool = parse_excel(bank_file)
UploadWorkbook == \E bank \in parse_excel(workbook) : LoadBank(bank)

\* a process whose user holds some workbook
InitParser ==
    /\ InitSession
    /\ workbook \in Workbooks(MaxRows)
    /\ InitGenerator

NextParser == UploadWorkbook

SpecParser == InitParser /\ [][NextParser]_vars

\* ---------------------------------------------------------------- specifications
\* the handlers every specification has
Common ==
    \/ StartStandard
    \/ \E focus_area \in DOMAIN STUDY_PLAN_DATA : StartTargeted(focus_area)
    \/ ResetHistory
    \/ GoToReview
    \/ \E i \in 0..(SessionSize - 1) : JumpTo(i)
    \/ Submit
    \/ EndExam
    \/ StartNextBlock

\* the option texts and option positions the widgets of any question offer
OptionTexts == UNION {SetOf(q.options) : q \in Kinds}
OptionIndices == UNION {0..(Len(q.options) - 1) : q \in Kinds}

\* answering the question on screen
Answer ==
    \/ \E i \in OptionIndices : ToggleCheckbox(i)
    \/ \E o \in OptionTexts : SelectRadio(o)

\* The session engine: every handler of the user interface, banks of up to
\* MaxGradedBank questions, no history upload.
Next ==
    \/ \E bank \in Banks(Kinds, MaxGradedBank) : LoadBank(bank)
    \/ Common
    \/ Answer
    \/ ToggleFlag
    \/ Previous
    \/ NextQuestion

Spec == Init /\ [][Next]_vars

\* Grading: the session engine without the flag button, on banks of the
\* two Fire Dynamics questions.
NextGrading ==
    \/ \E bank \in Banks(GradedKinds, MaxGradedBank) : LoadBank(bank)
    \/ Common
    \/ Answer
    \/ Previous
    \/ NextQuestion

SpecGrading == Init /\ [][NextGrading]_vars

\* The sampler: banks larger than a session, a legacy history upload, a user
\* who leaves every question unanswered.
NextSampler ==
    \/ \E bank \in Banks(Kinds, MaxBank) : LoadBank(bank)
    \/ Common
    \/ Previous
    \/ NextQuestion
    \/ \E data \in LegacyFiles : load_history_callback(data)

SpecSampler == Init /\ [][NextSampler]_vars

\* The response state: answers and flags, on banks of one or two Fire
\* Dynamics questions, which the drill of that topic draws again.
NextResponse ==
    \/ \E q \in GradedKinds : LoadBank(<<q>>)
    \/ \E q1, q2 \in GradedKinds : LoadBank(<<q1, q2>>)
    \/ Common
    \/ Answer
    \/ ToggleFlag

SpecResponse == Init /\ [][NextResponse]_vars

\* The session engine with every handler of a session and no history
\* upload, on banks of one or two questions of any kind.
NextLedger ==
    \/ \E q \in Kinds : LoadBank(<<q>>)
    \/ \E q1, q2 \in Kinds : LoadBank(<<q1, q2>>)
    \/ Common
    \/ Answer
    \/ ToggleFlag
    \/ Previous
    \/ NextQuestion

SpecLedger == Init /\ [][NextLedger]_vars

\* The ledger and its history files, on banks of a single question (the
\* upload does not read the bank); the user uploads a history file, or the
\* progress file just downloaded.
NextHistory ==
    \/ \E q \in Kinds : LoadBank(<<q>>)
    \/ Common
    \/ Answer
    \/ \E data \in HistoryFiles : load_history_callback(data)
    \/ \E data \in SaveProgress(CurrentLedger) : load_history_callback(data)

SpecHistory == Init /\ [][NextHistory]_vars

\* ================================================================ claims
\* Vocabulary of the claims, stated on the bank and the ledger directly.

\* bank questions whose id is not in the set `used`
Unseen(used) == {i \in DOMAIN questions_pool : ~(questions_pool[i].id \in used)}

\* bank questions whose id the topic's list names
TopicQuestions(t) ==
    {i \in DOMAIN questions_pool :
        \E k \in DOMAIN STUDY_PLAN_DATA[t] : STUDY_PLAN_DATA[t][k] = questions_pool[i].id}

\* a bank is loaded and used_ids covers every id of it
Exhausted ==
    /\ questions_pool # <<>>
    /\ \A i \in DOMAIN questions_pool : questions_pool[i].id \in used_ids

Started == op \in {"StartStandard", "StartTargeted"}

\* C1: a Standard start draws no question whose id was in used_ids before
\* the start, and used_ids has exactly len(session) more ids after it.
C1_StandardAddsLenNewIds ==
    [][op' = "StartStandard" =>
          /\ \A k \in DOMAIN exam_session' :
                questions_pool[exam_session'[k]].id \notin used_ids
          /\ Cardinality(used_ids') = Cardinality(used_ids) + Len(exam_session')]_vars

\* C2: a Standard start yields min(SessionSize, unseen questions) questions
\* and needs an unseen question; once used_ids covers the bank it stays so,
\* and no Standard session starts, until the reset; the reset happens only
\* in that condition and empties the ledger, making the whole bank eligible.
C2_StandardUntilExhaustedThenReset ==
    [][/\ op' = "StartStandard" =>
            /\ Cardinality(Unseen(used_ids)) > 0
            /\ Len(exam_session') = Min(SessionSize, Cardinality(Unseen(used_ids)))
       /\ (Exhausted /\ op' # "ResetHistory") => (Exhausted' /\ op' # "StartStandard")
       /\ op' = "ResetHistory" =>
            /\ Exhausted
            /\ exam_stage = "SETUP"
            /\ used_ids' = {} /\ wrong_ids' = {}
            /\ cumulative_correct' = 0 /\ cumulative_answered' = 0
            /\ Unseen(used_ids') = DOMAIN questions_pool]_vars

\* the scaled "20, then 5": with no upload, the second Standard block of a
\* bank of distinct ids holds the remainder and exhausts the bank
C2_Witness ==
    /\ op = "StartStandard"
    /\ ~history_loaded
    /\ Len(questions_pool) > SessionSize
    /\ \A i, j \in DOMAIN questions_pool :
          i # j => questions_pool[i].id # questions_pool[j].id
    /\ Len(exam_session) = Len(questions_pool) - SessionSize
    /\ Exhausted

\* C3: a started session has min(SessionSize, |eligible pool|) questions,
\* all from the eligible pool (non-empty), none of them twice.
C3_SessionIsSampleOfPool ==
    [][(op' \in {"StartStandard", "StartTargeted"}) =>
          \E pool \in IF op' = "StartStandard"
                         THEN {Unseen(used_ids)}
                         ELSE {TopicQuestions(t) : t \in DOMAIN STUDY_PLAN_DATA} :
             /\ Cardinality(pool) > 0
             /\ Len(exam_session') = Min(SessionSize, Cardinality(pool))
             /\ \A k \in DOMAIN exam_session' : exam_session'[k] \in pool
             /\ \A j, k \in DOMAIN exam_session' :
                   j # k => exam_session'[j] # exam_session'[k]]_vars

\* a session cut to SessionSize out of a larger pool
C3_Witness ==
    /\ op = "StartStandard"
    /\ Len(exam_session) = SessionSize
    /\ Unseen(used_ids) # {}

\* C4: in SETUP every bank question of a topic can be drawn by that topic's
\* drill whatever used_ids holds, and a drill draws topic questions only,
\* min(SessionSize, |topic questions|) of them.
C4_TargetedIgnoresUsedIds ==
    /\ [](exam_stage = "SETUP" =>
            \A t \in DOMAIN STUDY_PLAN_DATA : \A i \in TopicQuestions(t) :
                ENABLED (StartTargeted(t) /\ exam_session'[1] = i))
    /\ [][op' = "StartTargeted" =>
            \E t \in DOMAIN STUDY_PLAN_DATA :
               /\ \A k \in DOMAIN exam_session' : exam_session'[k] \in TopicQuestions(t)
               /\ Len(exam_session') =
                     Min(SessionSize, Cardinality(TopicQuestions(t)))]_vars

\* a drill started after every bank question had been drawn and missed in
\* earlier sessions (only a submission adds to wrong_ids here): the Standard
\* pool was exhausted and every drawn question had been used before
C4_Witness ==
    /\ op = "StartTargeted"
    /\ \A i \in DOMAIN questions_pool : questions_pool[i].id \in wrong_ids
    /\ Len(questions_pool) > SessionSize
    /\ Len(exam_session) = SessionSize

\* C5: right after a start every session id is in used_ids; a Standard
\* start draws no id that is in used_ids; and only the reset removes an id
\* from used_ids, so an id drawn by a drill stays out of Standard sessions.
C5_SessionIdsMarkedUsed ==
    /\ [](Started => \A k \in DOMAIN exam_session :
                        questions_pool[exam_session[k]].id \in used_ids)
    /\ [][/\ op' = "StartStandard" =>
               \A k \in DOMAIN exam_session' :
                  questions_pool[exam_session'[k]].id \notin used_ids
          /\ op' # "ResetHistory" => used_ids \subseteq used_ids']_vars

\* the first session of a process is a drill, and unseen questions are left
\* for a later Standard session
C5_Witness ==
    /\ op = "StartTargeted"
    /\ ~history_loaded
    /\ used_ids = {questions_pool[exam_session[k]].id : k \in DOMAIN exam_session}
    /\ Unseen(used_ids) # {}

\* C6: SUBMIT adds the number of correct session questions to
\* cumulative_correct and len(session) to cumulative_answered, and adds
\* exactly the ids of the questions that are not correct to wrong_ids.
C6_SubmitAccumulates ==
    [][op' = "Submit" =>
          /\ cumulative_correct' = cumulative_correct +
                Cardinality({k \in DOMAIN exam_session : is_correct(exam_session[k])})
          /\ cumulative_answered' = cumulative_answered + Len(exam_session)
          /\ wrong_ids' = wrong_ids \cup
                {questions_pool[exam_session[k]].id :
                    k \in {j \in DOMAIN exam_session : ~is_correct(exam_session[j])}}]_vars

\* a later submission of the process, with an unanswered question: the
\* counters hold more than this session's share
C6_Witness ==
    /\ op = "Submit"
    /\ cumulative_answered > Len(exam_session)
    /\ cumulative_correct >
          Cardinality({k \in DOMAIN exam_session : is_correct(exam_session[k])})
    /\ \E k \in DOMAIN exam_session : user_selections[exam_session[k]] = {}

\* C7: is_correct is set equality of user_selections and correct_indices;
\* SUBMIT counts exactly the set-equal questions and puts the id of every
\* other one (strict subset, strict superset, empty) into wrong_ids.
C7_ExactSetMatch ==
    /\ [](\A i \in DOMAIN questions_pool :
             is_correct(i) <=>
                /\ user_selections[i] \subseteq questions_pool[i].correct_indices
                /\ questions_pool[i].correct_indices \subseteq user_selections[i])
    /\ [][op' = "Submit" =>
            /\ \A k \in DOMAIN exam_session :
                  LET sel == user_selections[exam_session[k]]
                      cor == questions_pool[exam_session[k]].correct_indices
                  IN  (~(sel \subseteq cor) \/ ~(cor \subseteq sel)) =>
                         questions_pool[exam_session[k]].id \in wrong_ids'
            /\ cumulative_correct' - cumulative_correct =
                  Cardinality({k \in DOMAIN exam_session :
                     /\ user_selections[exam_session[k]] \subseteq
                           questions_pool[exam_session[k]].correct_indices
                     /\ questions_pool[exam_session[k]].correct_indices \subseteq
                           user_selections[exam_session[k]]})]_vars

\* a submitted session with a strict subset on one multi-select question and
\* a strict superset on another: nothing added to cumulative_correct
C7_Witness ==
    /\ op = "Submit"
    /\ cumulative_correct = 0
    /\ \E j, k \in DOMAIN exam_session :
          LET selj == user_selections[exam_session[j]]
              corj == questions_pool[exam_session[j]].correct_indices
              selk == user_selections[exam_session[k]]
              cork == questions_pool[exam_session[k]].correct_indices
          IN  /\ selj # {} /\ selj \subseteq corj /\ selj # corj
              /\ cork \subseteq selk /\ selk # cork
              /\ questions_pool[exam_session[j]].id \in wrong_ids

\* C8: cumulative_correct <= cumulative_answered in every reachable state.
C8_CorrectAtMostAnswered == cumulative_correct <= cumulative_answered

\* C9: loading a keyed-object history file loses nothing: both id sets keep
\* their members and neither counter drops below its value before the load.
C9_DictLoadKeepsLedger ==
    [][(op' = "load_history_callback" /\ message' = "History Restored.") =>
          /\ used_ids \subseteq used_ids'
          /\ wrong_ids \subseteq wrong_ids'
          /\ cumulative_correct' >= cumulative_correct
          /\ cumulative_answered' >= cumulative_answered]_vars

\* C10: loading a bare list of ids unions them into used_ids and leaves
\* wrong_ids and both counters alone; loading the same file again changes
\* nothing.
C10_LegacyLoadUnionIdempotent ==
    [][\A data \in LegacyFiles :
          (load_history_callback(data) /\ Unhashable \notin SetOf(data.used_ids.items)) =>
             /\ used_ids' = used_ids \cup {data.used_ids.items[k] : k \in DOMAIN data.used_ids.items}
             /\ wrong_ids' = wrong_ids
             /\ cumulative_correct' = cumulative_correct
             /\ cumulative_answered' = cumulative_answered
             /\ LET again == LoadHistory(
                       Ledger(used_ids', wrong_ids', cumulative_correct',
                              cumulative_answered', message'), data)
                IN  /\ again.used_ids = used_ids'
                    /\ again.wrong_ids = wrong_ids'
                    /\ again.cumulative_correct = cumulative_correct'
                    /\ again.cumulative_answered = cumulative_answered']_vars

\* a legacy load that added ids to a ledger with misses and scores
C10_Witness ==
    /\ op = "load_history_callback"
    /\ message = "Loaded legacy history (Progress only)."
    /\ wrong_ids # {}
    /\ cumulative_correct > 0
    /\ cumulative_answered > cumulative_correct
    /\ \E id \in used_ids : \A i \in DOMAIN questions_pool : questions_pool[i].id # id

\* same four ledger fields
SameLedger(A, B) ==
    /\ A.used_ids = B.used_ids
    /\ A.wrong_ids = B.wrong_ids
    /\ A.cumulative_correct = B.cumulative_correct
    /\ A.cumulative_answered = B.cumulative_answered

\* C11: whenever the ledger can be saved (used_ids is not empty), every
\* progress file Save Progress can write restores, loaded into a fresh
\* ledger, the four fields of the saved ledger, and loaded back into the
\* same ledger leaves the four fields as they are; an upload of the file
\* just saved changes no ledger field.
C11_RoundTrip ==
    /\ [](used_ids # {} =>
            /\ SaveProgress(CurrentLedger) # {}
            /\ \A data \in SaveProgress(CurrentLedger) :
                  /\ SameLedger(LoadHistory(FreshLedger, data), CurrentLedger)
                  /\ SameLedger(LoadHistory(CurrentLedger, data), CurrentLedger))
    /\ [][\A data \in SaveProgress(CurrentLedger) :
             load_history_callback(data) =>
                /\ used_ids' = used_ids /\ wrong_ids' = wrong_ids
                /\ cumulative_correct' = cumulative_correct
                /\ cumulative_answered' = cumulative_answered
                /\ message' = "History Restored."]_vars

\* the progress file of a ledger with two sessions graded, one of them
\* missed, was uploaded back (no other history file holds the count 2)
C11_Witness ==
    /\ op = "load_history_callback"
    /\ message = "History Restored."
    /\ cumulative_answered = 2
    /\ cumulative_correct = 1
    /\ wrong_ids # {}
    /\ used_ids # {}
\* C12: a history load that reports an error leaves used_ids, wrong_ids and
\* both counters exactly as they were before the load.
C12_FailedLoadKeepsLedger ==
    [][(op' = "load_history_callback" /\ message' = "Error loading history") =>
          /\ used_ids' = used_ids
          /\ wrong_ids' = wrong_ids
          /\ cumulative_correct' = cumulative_correct
          /\ cumulative_answered' = cumulative_answered]_vars
\* the stage transitions the claim lists
ListedTransitions ==
    { <<"SETUP", "ACTIVE">>, <<"ACTIVE", "REVIEW">>, <<"REVIEW", "ACTIVE">>,
      <<"REVIEW", "REPORT">>, <<"REPORT", "SETUP">> }

\* C13: every step that changes exam_stage makes one of the transitions
\* SETUP -> ACTIVE, ACTIVE -> REVIEW, REVIEW -> ACTIVE, REVIEW -> REPORT,
\* REPORT -> SETUP (so SETUP is re-entered from REPORT only).
C13_StageTransitions ==
    [][exam_stage' # exam_stage => <<exam_stage, exam_stage'>> \in ListedTransitions]_vars

\* C13 as amended: the listed transitions and, by End Exam, ACTIVE -> SETUP
\* and REVIEW -> SETUP are the only ones; each is made by its handler: a
\* start leaves SETUP, REPORT is entered by SUBMIT from REVIEW only, and
\* SETUP is re-entered from REPORT or by End Exam.
C13_StageTransitionsWithEndExam ==
    [][exam_stage' # exam_stage =>
          /\ <<exam_stage, exam_stage'>> \in
                ListedTransitions \cup {<<"ACTIVE", "SETUP">>, <<"REVIEW", "SETUP">>}
          /\ exam_stage = "SETUP" => op' \in {"StartStandard", "StartTargeted"}
          /\ exam_stage' = "REVIEW" => op' = "GoToReview"
          /\ <<exam_stage, exam_stage'>> = <<"REVIEW", "ACTIVE">> => op' = "JumpTo"
          /\ exam_stage' = "REPORT" => (exam_stage = "REVIEW" /\ op' = "Submit")
          /\ exam_stage' = "SETUP" =>
                \/ op' = "EndExam"
                \/ exam_stage = "REPORT" /\ op' = "StartNextBlock"]_vars

\* a session abandoned by End Exam: nothing was ever graded, so the stage
\* left was ACTIVE or REVIEW
C13_Witness ==
    /\ op = "EndExam"
    /\ exam_stage = "SETUP"
    /\ exam_session # <<>>
    /\ cumulative_answered = 0
    /\ wrong_ids = {}
    /\ ~history_loaded
\* generate_distractors has returned
Returned == pc \in {"returned", "written"}

\* C14: a list generate_distractors returns holds exactly 3 values, pairwise
\* distinct, each > 0, each different from correct_value, and each the
\* truncated (int) or rounded (float) product of correct_value and a factor
\* within the variance.
C14_DistractorsDistinctPositive ==
    Returned =>
       /\ Len(result) = 3
       /\ \A i, j \in DOMAIN result : i # j => result[i] # result[j]
       /\ \A i \in DOMAIN result :
             /\ result[i] > 0
             /\ result[i] # correct_value.v
             /\ \E f \in Factors(variance) :
                   \/ correct_value.int /\ result[i] \in IntValues(correct_value.v * f)
                   \/ ~correct_value.int /\ result[i] \in RoundValues(correct_value.v * f)

\* a return for an integer correct_value, with values on both sides
\* of the correct one
C14_Witness ==
    /\ pc = "returned"
    /\ \E i, j \in DOMAIN result :
          result[i] < correct_value.v /\ result[j] > correct_value.v
    /\ correct_value.int

\* C15: generate_distractors stops for every input: the loop is left in the
\* end (with 3 distractors, or with an error).
C15_DistractorsStop == <>Returned

\* the letter of a position of the row
LetterOf(i) == <<"A", "B", "C", "D">>[i]

\* C16: a written row has four options, the three distractors and the
\* correct answer in some order; exactly one option equals the correct
\* answer, and the recorded letter is the letter of its position.
C16_OneCorrectOptionAndLetter ==
    pc = "written" =>
       /\ Len(options) = 4
       /\ \E p \in Permutations(1..4) :
             \A i \in 1..4 : options[i] = (result \o <<correct_value.v>>)[p[i]]
       /\ Cardinality({i \in 1..4 : options[i] = correct_value.v}) = 1
       /\ \A i \in 1..4 : options[i] = correct_value.v => correct_letter = LetterOf(i)

\* a row whose correct answer went to the second option
C16_Witness ==
    /\ pc = "written"
    /\ options[2] = correct_value.v
    /\ correct_letter = "B"
    /\ options[4] # result[3]
\* C17: no two questions of a loaded bank have the same id.
C17_UniqueIds ==
    \A i, j \in DOMAIN questions_pool :
       i # j => questions_pool[i].id # questions_pool[j].id

\* some bold cell of the workbook holds the value v
BoldValue(v) ==
    \E n \in DOMAIN workbook : \E k \in DOMAIN workbook[n] :
       \E c \in DOMAIN workbook[n][k].cells :
          workbook[n][k].cells[c].bold /\ workbook[n][k].cells[c].value = v

\* C18: every question of a loaded bank has a non-empty correct_indices
\* whose members are indices into its options (0 <= i < len(options)), each
\* of an option built from a bold cell.
C18_CorrectIndicesValid ==
    \A q \in DOMAIN questions_pool :
       /\ questions_pool[q].correct_indices # {}
       /\ \A i \in questions_pool[q].correct_indices :
             /\ 0 <= i
             /\ i < Len(questions_pool[q].options)
             /\ BoldValue(questions_pool[q].options[i + 1])
\* C19: whenever the stage is ACTIVE, REVIEW or REPORT the session is not
\* empty and 0 <= current_index < len(session); a Previous step happens
\* only above the first question and a Next step only below the last one,
\* and each moves the cursor by exactly one.
C19_CursorInBounds ==
    /\ [](exam_stage \in {"ACTIVE", "REVIEW", "REPORT"} =>
            /\ Len(exam_session) > 0
            /\ 0 <= current_index
            /\ current_index < Len(exam_session))
    /\ [][/\ op' = "Previous" =>
               (current_index > 0 /\ current_index' = current_index - 1)
          /\ op' = "NextQuestion" =>
               /\ current_index < Len(exam_session) - 1
               /\ current_index' = current_index + 1]_vars

\* Next has moved the cursor to the last question of a session of several
C19_Witness ==
    /\ op = "NextQuestion"
    /\ Len(exam_session) > 1
    /\ current_index = Len(exam_session) - 1
\* C20: right after a session start every session question has
\* user_selections empty and flagged false, so none counts as correct yet;
\* the start leaves the response state of the other questions alone.
C20_ResponseResetAtStart ==
    /\ [](Started =>
            \A k \in DOMAIN exam_session :
               /\ user_selections[exam_session[k]] = {}
               /\ flagged[exam_session[k]] = FALSE
               /\ ~is_correct(exam_session[k]))
    /\ [][op' \in {"StartStandard", "StartTargeted"} =>
            \A i \in DOMAIN questions_pool :
               (\A k \in DOMAIN exam_session' : exam_session'[k] # i) =>
                  (user_selections'[i] = user_selections[i] /\ flagged'[i] = flagged[i])]_vars

\* a drill has redrawn both questions of a bank after a session in which
\* both were answered correctly
C20_Witness ==
    /\ op = "StartTargeted"
    /\ Len(questions_pool) = 2
    /\ Len(exam_session) = 2
    /\ cumulative_correct = 2
    /\ cumulative_answered = 2
    /\ wrong_ids = {}
\* wrong_ids and both counters are left as they are
SameGrades ==
    /\ wrong_ids' = wrong_ids
    /\ cumulative_correct' = cumulative_correct
    /\ cumulative_answered' = cumulative_answered

C22_IdSetsOnlyGrow ==
    [][op' # "ResetHistory" =>
          (used_ids \subseteq used_ids' /\ wrong_ids \subseteq wrong_ids')]_vars

\* a question missed in an earlier session (no history file was loaded) has
\* been answered correctly and submitted, and its id is still in wrong_ids
C22_Witness ==
    /\ op = "Submit"
    /\ ~history_loaded
    /\ \E k \in DOMAIN exam_session :
          /\ is_correct(exam_session[k])
          /\ questions_pool[exam_session[k]].id \in wrong_ids
          /\ \A i \in DOMAIN questions_pool :
                questions_pool[i].id = questions_pool[exam_session[k]].id =>
                   i = exam_session[k]
\* the score the REPORT page computes from the session
ReportScore == Cardinality({k \in DOMAIN exam_session : is_correct(exam_session[k])})

\* C23: SUBMIT is pressed in REVIEW and leads to REPORT; from REPORT the
\* stage goes to SETUP only, and SETUP is left by a start only, so a
\* session is submitted at most once.  After the submission, until the
\* next start, no answer and no counter changes.  With no history load, a
\* counter changes by SUBMIT (and the reset) only: cumulative_answered by
\* the size of the session, cumulative_correct by the score REPORT shows.
C23_GradedOnce ==
    [][/\ op' = "Submit" =>
            /\ exam_stage = "REVIEW" /\ exam_stage' = "REPORT"
            /\ exam_session' = exam_session
            /\ cumulative_answered' = cumulative_answered + Len(exam_session)
            /\ cumulative_correct' = cumulative_correct + ReportScore'
       /\ exam_stage = "REPORT" =>
            /\ op' # "Submit"
            /\ exam_stage' \in {"REPORT", "SETUP"}
            /\ user_selections' = user_selections
            /\ exam_session' = exam_session
            /\ ReportScore' = ReportScore
       /\ exam_stage = "SETUP" =>
            /\ op' # "Submit"
            /\ exam_stage' # "SETUP" => op' \in {"StartStandard", "StartTargeted"}
            /\ op' \notin {"StartStandard", "StartTargeted", "LoadBank"} =>
                  user_selections' = user_selections
       /\ op' \notin {"Submit", "ResetHistory"} =>
            /\ cumulative_correct' = cumulative_correct
            /\ cumulative_answered' = cumulative_answered]_vars

\* the report of a later session with a correct answer, after an earlier
\* session that also scored
C23_Witness ==
    /\ op = "Submit"
    /\ exam_stage = "REPORT"
    /\ ReportScore > 0
    /\ cumulative_correct > ReportScore
    /\ cumulative_answered > cumulative_correct
\* C24: with no history file loaded, wrong_ids is a subset of used_ids in
\* every reachable state.
C24_WrongSubsetOfUsed == ~history_loaded => wrong_ids \subseteq used_ids

\* a submission has left a missed id in wrong_ids and a correctly answered
\* one in used_ids only
C24_Witness ==
    /\ op = "Submit"
    /\ ~history_loaded
    /\ wrong_ids # {}
    /\ wrong_ids # used_ids
    /\ cumulative_correct > 0

====
